---- MODULE Spec2Model ----
(***************************************************************************)
(* Model of src/extract_schemas.py: parse_field_type (the recursive walk   *)
(* over a type expression), build_class_map (class discovery with the      *)
(* nested process_class recursion) and visualize_schemas (node and edge    *)
(* creation on a non-strict directed graph).                               *)
(*                                                                         *)
(* Names (class names, field names, module names) are sequences of         *)
(* one-character strings, so that sanitize_name can be modelled character  *)
(* by character.                                                           *)
(***************************************************************************)
EXTENDS Naturals, Sequences, FiniteSets, TLC

VARIABLES
    env,              \* the Python environment of this run: module_names and the annotations of the classes
    pc,               \* position of the script: "build", "nodes", "edges", "legend_node", "legend_edge", "done"
    mod_idx,          \* build_class_map: index of the next entry of module_names
    members,          \* build_class_map: classes of the current module still to be passed to process_class
    stack,            \* process_class: the active calls, innermost last; each with its leaf names still to visit
    class_map,        \* build_class_map: class_map (name -> metadata)
    class_keys,       \* insertion order of the keys of class_map
    visited_classes,  \* build_class_map: visited_classes
    discovered,       \* history: the classes process_class was called with
    G_nodes,          \* visualize_schemas: name -> attributes of the nodes of G
    G_edges,          \* visualize_schemas: the edges of G in the order they were added
    node_idx,         \* visualize_schemas: index in class_keys of the next class to get a node
    edge_todo,        \* visualize_schemas: (class, field, leaf) triples of the edge loops still to visit
    pf_in,            \* type resolution run: the type expression under resolution
    pf_out            \* type resolution run: results of parse_field_type recorded so far

vars == <<env, pc, mod_idx, members, stack, class_map, class_keys, visited_classes,
          discovered, G_nodes, G_edges, node_idx, edge_todo, pf_in, pf_out>>

(***************************************************************************)
(* Bounds                                                                  *)
(***************************************************************************)
\* nesting depth of the type expressions given to the type resolution run
MaxNest == 2
\* nesting depth of the type expression of the field A.f in the pipeline run
MaxFieldNest == 1
\* cap on the depth of the process_class recursion
MaxStack == 5

(***************************************************************************)
(* Names                                                                   *)
(***************************************************************************)
nA == <<"A">>
nB == <<"B">>
nC == <<"C">>
nE == <<"E">>
nText == <<"T", "e", "x", "t">>
nRB == <<"R", "[", "B", "]">>
nDt == <<"d", "t">>
nInt == <<"i", "n", "t">>
nStr == <<"s", "t", "r">>
nComplex == <<"c", "o", "m", "p", "l", "e", "x">>
nNoneType == <<"N", "o", "n", "e", "T", "y", "p", "e">>
nSet == <<"S", "e", "t">>
nTuple == <<"T", "u", "p", "l", "e">>
nLegend == <<"L", "e", "g", "e", "n", "d">>
nM1 == <<"m", "1">>
nM2 == <<"m", "2">>
nBad == <<"b", "a", "d">>
nTyping == <<"t", "y", "p", "i", "n", "g">>
nSys == <<"s", "y", "s">>
nF == <<"f">>
nP == <<"p">>
nQ == <<"q">>
nCField == <<"c", "-", "1">>
nX == <<"x">>
nY == <<"y">>
nT == <<"t">>

RECURSIVE Str(_)
\* a name as one string
Str(n) == IF n = <<>> THEN "" ELSE Head(n) \o Str(Tail(n))

\* the characters the pattern [^a-zA-Z0-9_] does not match
WordChars ==
    {"a", "b", "c", "d", "e", "f", "g", "h", "i", "j", "k", "l", "m",
     "n", "o", "p", "q", "r", "s", "t", "u", "v", "w", "x", "y", "z",
     "A", "B", "C", "D", "E", "F", "G", "H", "I", "J", "K", "L", "M",
     "N", "O", "P", "Q", "R", "S", "T", "U", "V", "W", "X", "Y", "Z",
     "0", "1", "2", "3", "4", "5", "6", "7", "8", "9", "_"}

\* re.sub(r"[^a-zA-Z0-9_]", "_", name)
sanitize_name(name) ==
    [i \in 1..Len(name) |-> IF name[i] \in WordChars THEN name[i] ELSE "_"]

\* BUILTIN_TYPES: sys.builtin_module_names (those of the interpreter that
\* the model names) and the listed type names
BUILTIN_TYPES ==
    {nSys, <<"t", "i", "m", "e">>, <<"b", "u", "i", "l", "t", "i", "n", "s">>} \cup
    {nInt, nStr, <<"f", "l", "o", "a", "t">>, <<"b", "o", "o", "l">>,
     <<"l", "i", "s", "t">>, <<"d", "i", "c", "t">>, <<"s", "e", "t">>,
     <<"t", "u", "p", "l", "e">>, nNoneType, <<"A", "n", "y">>,
     <<"O", "p", "t", "i", "o", "n", "a", "l">>, <<"U", "n", "i", "o", "n">>,
     <<"C", "a", "l", "l", "a", "b", "l", "e">>, <<"T", "y", "p", "e">>,
     <<"I", "t", "e", "r", "a", "b", "l", "e">>, <<"I", "t", "e", "r", "a", "t", "o", "r">>,
     <<"S", "e", "q", "u", "e", "n", "c", "e">>, <<"M", "a", "p", "p", "i", "n", "g">>,
     <<"B", "y", "t", "e", "S", "t", "r", "i", "n", "g">>, <<"b", "y", "t", "e", "s">>,
     <<"b", "y", "t", "e", "a", "r", "r", "a", "y">>,
     <<"m", "e", "m", "o", "r", "y", "v", "i", "e", "w">>, nText,
     <<"C", "o", "m", "p", "l", "e", "x">>, <<"N", "u", "m", "b", "e", "r">>,
     <<"o", "b", "j", "e", "c", "t">>, <<"t", "y", "p", "e">>,
     <<"f", "r", "o", "z", "e", "n", "s", "e", "t">>,
     <<"p", "r", "o", "p", "e", "r", "t", "y">>,
     <<"s", "t", "a", "t", "i", "c", "m", "e", "t", "h", "o", "d">>,
     <<"c", "l", "a", "s", "s", "m", "e", "t", "h", "o", "d">>,
     <<"f", "u", "n", "c", "t", "i", "o", "n">>}

(***************************************************************************)
(* Type expressions, as typing.get_origin / get_args present them.         *)
(*   tag "Obj":     an object with __name__ and no origin (a class, a      *)
(*                  builtin type, NoneType)                                *)
(*   tag "NoName":  an object without __name__ (None, a string forward     *)
(*                  reference); name holds its str()                       *)
(*   tag "Union":   origin Union                                           *)
(*   tag "List":    origin list                                            *)
(*   tag "Dict":    origin dict                                            *)
(*   tag "Generic": any other subscripted generic (typing.Set[..],         *)
(*                  typing.Tuple[..]); name holds its __name__            *)
(***************************************************************************)
Obj(n) == [tag |-> "Obj", name |-> n, args |-> <<>>]
NoName(n) == [tag |-> "NoName", name |-> n, args |-> <<>>]
ListOf(t) == [tag |-> "List", name |-> <<>>, args |-> <<t>>]
BareList == [tag |-> "List", name |-> <<>>, args |-> <<>>]
DictOf(k, v) == [tag |-> "Dict", name |-> <<>>, args |-> <<k, v>>]
SetOf(t) == [tag |-> "Generic", name |-> nSet, args |-> <<t>>]
TupleOf(t) == [tag |-> "Generic", name |-> nTuple, args |-> <<t>>]
NoneTypeT == Obj(nNoneType)
NoneLit == NoName(<<"N", "o", "n", "e">>)

RECURSIVE FlattenUnion(_)
\* typing.Union flattens nested unions and reads None as type(None)
FlattenUnion(args) ==
    IF args = <<>> THEN <<>>
    ELSE LET a == Head(args)
             h == IF a.tag = "Union" THEN a.args
                  ELSE IF a = NoneLit THEN <<NoneTypeT>>
                  ELSE <<a>>
         IN  h \o FlattenUnion(Tail(args))

RECURSIVE Dedupe(_, _)
\* typing.Union drops repeated parameters, keeping the first occurrence
Dedupe(args, seen) ==
    IF args = <<>> THEN <<>>
    ELSE IF Head(args) \in seen THEN Dedupe(Tail(args), seen)
    ELSE <<Head(args)>> \o Dedupe(Tail(args), seen \cup {Head(args)})

\* typing.Union[args]: a union of one parameter is that parameter
UnionOf(args) ==
    LET flat == Dedupe(FlattenUnion(args), {})
    IN  IF Len(flat) = 1 THEN flat[1]
        ELSE [tag |-> "Union", name |-> <<>>, args |-> flat]

\* typing.Optional[t] is Union[t, None]
OptionalOf(t) == UnionOf(<<t, NoneLit>>)

\* get_origin(field_type) is Union
OriginIsUnion(t) == t.tag = "Union"

\* hasattr(field_type, "__name__")
HasName(t) == t.tag \in {"Obj", "Generic"}

RECURSIVE JoinDisplays(_)
\* ", ".join(type_displays)
JoinDisplays(ds) ==
    IF ds = <<>> THEN ""
    ELSE IF Len(ds) = 1 THEN ds[1]
    ELSE ds[1] \o ", " \o JoinDisplays(Tail(ds))

RECURSIVE parse_field_type(_)
RECURSIVE UnionNames(_)
RECURSIVE UnionDisplays(_)

RECURSIVE UnionNamesDropNone(_)
UnionNamesDropNone(args) ==
    IF args = <<>> THEN <<>>
    ELSE (IF Head(args) = NoneTypeT THEN <<>>
          ELSE parse_field_type(Head(args)).types) \o UnionNamesDropNone(Tail(args))

\* the loop over the parameters of a Union: type_names
UnionNames(args) ==
    IF args = <<>> THEN <<>>
    ELSE (IF Head(args) = NoneTypeT THEN <<nNoneType>>
          ELSE parse_field_type(Head(args)).types) \o UnionNames(Tail(args))

\* the loop over the parameters of a Union: type_displays
UnionDisplays(args) ==
    IF args = <<>> THEN <<>>
    ELSE <<IF Head(args) = NoneTypeT THEN "None"
           ELSE parse_field_type(Head(args)).display>> \o UnionDisplays(Tail(args))

\* parse_field_type(field_type): [display, types]
parse_field_type(t) ==
    IF OriginIsUnion(t) THEN
        LET non_none_types == SelectSeq(t.args, LAMBDA a : a # NoneTypeT)
            display ==
                IF Len(t.args) = 2 /\ \E i \in 1..2 : t.args[i] = NoneTypeT
                THEN "Optional[" \o parse_field_type(non_none_types[1]).display \o "]"
                ELSE "Union[" \o JoinDisplays(UnionDisplays(t.args)) \o "]"
        IN  [display |-> display, types |-> UnionNames(t.args)]
    ELSE IF t.tag = "List" THEN
        IF t.args # <<>>
        THEN LET result == parse_field_type(t.args[1])
             IN  [display |-> "List[" \o result.display \o "]", types |-> result.types]
        ELSE [display |-> "List", types |-> <<>>]
    ELSE IF t.tag = "Dict" THEN
        IF Len(t.args) = 2
        THEN LET key_result == parse_field_type(t.args[1])
                 value_result == parse_field_type(t.args[2])
             IN  [display |-> "Dict[" \o key_result.display \o ", "
                                 \o value_result.display \o "]",
                  types |-> key_result.types \o value_result.types]
        ELSE [display |-> "Dict", types |-> <<>>]
    ELSE IF HasName(t)
        THEN [display |-> Str(t.name), types |-> <<t.name>>]
        ELSE [display |-> Str(t.name), types |-> <<>>]

(***************************************************************************)
(* The Python environment: objects, module namespaces, class bodies.       *)
(***************************************************************************)
ClassObj(n, m) == [kind |-> "class", name |-> n, module |-> m]
ModuleObj(n) == [kind |-> "module", name |-> n, module |-> <<>>]
SpecialObj(n, m) == [kind |-> "special", name |-> n, module |-> m]
NoObj == [kind |-> "none", name |-> <<>>, module |-> <<>>]

cA == ClassObj(nA, nM1)
cB == ClassObj(nB, nM1)
cC == ClassObj(nC, nM2)
cE == ClassObj(nE, nM1)
cText == ClassObj(nText, nM1)
cDt == ClassObj(nDt, nDt)

\* sys.modules: the modules loaded while the script runs (every module that
\* defines a class of the environment is loaded)
SysModules == {nSys, nTyping, nDt, nM1, nM2}

\* importlib.import_module(name) succeeds
Importable(name) == name \in SysModules

\* the namespace of a module, sorted by attribute name as inspect.getmembers
\* returns it; m2 binds the name A as env.m2A says (not at all, to the class
\* A of m1, or as a second name of its own class C)
Namespace(e, mod) ==
    IF mod = nM1 THEN
        << [attr |-> nA, obj |-> cA], [attr |-> nB, obj |-> cB],
           [attr |-> nC, obj |-> cC], [attr |-> nE, obj |-> cE],
           [attr |-> nSet, obj |-> SpecialObj(nSet, nTyping)],
           [attr |-> nText, obj |-> cText], [attr |-> nDt, obj |-> cDt] >>
    ELSE IF mod = nM2 THEN
        (IF e.m2A = "A" THEN << [attr |-> nA, obj |-> cA] >>
         ELSE IF e.m2A = "C" THEN << [attr |-> nA, obj |-> cC] >>
         ELSE << >>) \o << [attr |-> nC, obj |-> cC] >>
    ELSE IF mod = nDt THEN << [attr |-> nDt, obj |-> cDt] >>
    ELSE << >>

\* getattr(module, attr), NoObj when hasattr(module, attr) is false
ModuleAttr(e, mod, attr) ==
    LET ns == Namespace(e, mod)
        hits == SelectSeq(ns, LAMBDA b : b.attr = attr)
    IN  IF hits = <<>> THEN NoObj ELSE hits[1].obj

RECURSIVE MapObj(_)
MapObj(bs) == IF bs = <<>> THEN <<>> ELSE <<Head(bs).obj>> \o MapObj(Tail(bs))

\* inspect.getmembers(module, inspect.isclass) filtered by
\* obj.__module__ == module.__name__
ModuleClasses(e, mod) ==
    MapObj(SelectSeq(Namespace(e, mod),
                     LAMBDA b : b.obj.kind = "class" /\ b.obj.module = mod))

\* which branch of process_class a class takes
ClassKind(cls) ==
    IF cls.name \in {nA, nText} THEN "pydantic"
    ELSE IF cls.name = nB THEN "dataclass"
    ELSE IF cls.name = nE THEN "enum"
    ELSE "regular"

\* issubclass(cls, Enum)
IsEnum(cls) == ClassKind(cls) = "enum"

\* the annotations (or dataclass fields, or enum members) of a class, in
\* definition order
Annotations(e, cls) ==
    IF cls.name = nA THEN << [name |-> nF, type |-> e.TA] >>
    ELSE IF cls.name = nB THEN << [name |-> nP, type |-> e.TB],
                                  [name |-> nQ, type |-> Obj(nStr)] >>
    ELSE IF cls.name = nC THEN << [name |-> nCField, type |-> e.TC] >>
    ELSE IF cls.name = nE THEN << [name |-> nX, type |-> NoneLit],
                                  [name |-> nY, type |-> NoneLit] >>
    ELSE IF cls.name = nText THEN << [name |-> nT, type |-> Obj(nInt)] >>
    ELSE << >>

(***************************************************************************)
(* build_class_map                                                         *)
(***************************************************************************)
RECURSIVE ParseAll(_)
\* the loop over the annotations: fields[field_name] = {"type": type_info, ..}
ParseAll(anns) ==
    IF anns = <<>> THEN <<>>
    ELSE << [name |-> Head(anns).name, type |-> parse_field_type(Head(anns).type)] >>
         \o ParseAll(Tail(anns))

RECURSIVE EnumMembers(_)
\* the loop over the members of an Enum: no type is recorded
EnumMembers(anns) ==
    IF anns = <<>> THEN <<>>
    ELSE << [name |-> Head(anns).name, type |-> [display |-> "", types |-> <<>>]] >>
         \o EnumMembers(Tail(anns))

\* the try block of process_class: the fields of cls; for an object that is
\* not a class issubclass raises and fields stays empty
FieldsOf(e, cls) ==
    IF cls.kind # "class" THEN <<>>
    ELSE IF IsEnum(cls) THEN EnumMembers(Annotations(e, cls))
    ELSE ParseAll(Annotations(e, cls))

\* class_map[class_name] = {"fields", "module", "local", "is_enum"}
ClassEntry(e, cls) ==
    [fields |-> FieldsOf(e, cls),
     module |-> cls.module,
     local |-> \E i \in 1..Len(e.module_names) : e.module_names[i] = cls.module,
     is_enum |-> IsEnum(cls)]

\* the entry recorded by the except branch; module None is the empty name
PlaceholderEntry ==
    [fields |-> <<>>, module |-> <<>>, local |-> FALSE, is_enum |-> FALSE]

\* class_map[name] = entry
SetEntry(cm, name, entry) ==
    [n \in DOMAIN cm \cup {name} |-> IF n = name THEN entry ELSE cm[n]]

\* the key order of class_map after class_map[name] = ...
KeysAfterSet(keys, cm, name) ==
    IF name \in DOMAIN cm THEN keys ELSE Append(keys, name)

MarkVisitedForgets(v, name) == v

\* visited_classes.add(class_name)
MarkVisited(v, name) == v \cup {name}

\* the guard at the head of process_class
ReturnsAtOnce(cls, v) == cls.name \in v \/ cls.name \in BUILTIN_TYPES

RECURSIVE LeafNames(_)
\* the names the two loops over fields.values() and ["type"]["types"] visit
LeafNames(fields) ==
    IF fields = <<>> THEN <<>>
    ELSE Head(fields).type.types \o LeafNames(Tail(fields))

\* the names process_class goes on to resolve: none for an Enum
LeavesToResolve(e, cls) ==
    IF IsEnum(cls) THEN <<>> ELSE LeafNames(FieldsOf(e, cls))

\* the guard of the loop body: the name is passed over when it is empty,
\* already visited or a builtin
LeafSkipped(name, v) ==
    name = <<>> \/ name \in v \/ name \in BUILTIN_TYPES

\* the lookup of base_type_name: sys.modules, then the module of the class
\* under processing, then importlib.import_module(name) and its attribute
\* of the same name; [raised, obj]
Resolve(e, cls, name) ==
    LET base_cls ==
            IF name \in SysModules THEN ModuleObj(name)
            ELSE IF cls.module \in SysModules THEN ModuleAttr(e, cls.module, name)
            ELSE NoObj
    IN  IF base_cls # NoObj THEN [raised |-> FALSE, obj |-> base_cls]
        ELSE IF Importable(name) /\ ModuleAttr(e, name, name) # NoObj
        THEN [raised |-> FALSE, obj |-> ModuleAttr(e, name, name)]
        ELSE [raised |-> TRUE, obj |-> NoObj]

\* process_class(obj) raises: the object is not passed over by the guard
\* and is no class, so cls.__module__ or issubclass(cls, Enum) raises
ProcessingRaises(obj, v) == ~ReturnsAtOnce(obj, v) /\ obj.kind # "class"

\* the frame of the innermost active call of process_class
Top == stack[Len(stack)]

\* the stack with the first remaining leaf of the innermost call taken off
StackAfterLeaf ==
    [stack EXCEPT ![Len(stack)].todo = Tail(@)]

AbortLoop == [stack EXCEPT ![Len(stack)].todo = <<>>]

\* after the except branch the loop goes on with the next leaf
StackAfterExcept == StackAfterLeaf

\* the frame of a call of process_class(cls) that goes on to its loops
Frame(e, cls) == [cls |-> cls, todo |-> LeavesToResolve(e, cls)]

BuildUnchanged == UNCHANGED <<env, G_nodes, G_edges, node_idx, edge_todo, pf_in, pf_out>>

\* for module_name in module_names: importlib.import_module succeeds and
\* the classes defined in the module are listed
ImportListed ==
    /\ pc = "build" /\ stack = <<>> /\ members = <<>>
    /\ mod_idx <= Len(env.module_names)
    /\ Importable(env.module_names[mod_idx])
    /\ members' = ModuleClasses(env, env.module_names[mod_idx])
    /\ mod_idx' = mod_idx + 1
    /\ UNCHANGED <<pc, stack, class_map, class_keys, visited_classes, discovered>>
    /\ BuildUnchanged

\* for module_name in module_names: the import raises, the module is passed over
ImportFails ==
    /\ pc = "build" /\ stack = <<>> /\ members = <<>>
    /\ mod_idx <= Len(env.module_names)
    /\ ~Importable(env.module_names[mod_idx])
    /\ mod_idx' = mod_idx + 1
    /\ UNCHANGED <<pc, members, stack, class_map, class_keys, visited_classes, discovered>>
    /\ BuildUnchanged

\* process_class(obj) from the module loop, obj passed over by the guard
TopCallReturnsAtOnce ==
    /\ pc = "build" /\ stack = <<>> /\ members # <<>>
    /\ ReturnsAtOnce(Head(members), visited_classes)
    /\ members' = Tail(members)
    /\ discovered' = discovered \cup {Head(members)}
    /\ UNCHANGED <<pc, mod_idx, stack, class_map, class_keys, visited_classes>>
    /\ BuildUnchanged

\* process_class(obj) from the module loop: the class is marked visited, its
\* fields are parsed and class_map gets its entry
TopCallProcesses ==
    /\ pc = "build" /\ stack = <<>> /\ members # <<>>
    /\ LET cls == Head(members)
       IN  /\ ~ReturnsAtOnce(cls, visited_classes)
           /\ visited_classes' = MarkVisited(visited_classes, cls.name)
           /\ class_map' = SetEntry(class_map, cls.name, ClassEntry(env, cls))
           /\ class_keys' = KeysAfterSet(class_keys, class_map, cls.name)
           /\ stack' = << Frame(env, cls) >>
           /\ discovered' = discovered \cup {cls}
    /\ members' = Tail(members)
    /\ UNCHANGED <<pc, mod_idx>>
    /\ BuildUnchanged

\* the loop body for a name that is empty, visited or builtin
LeafPassedOver ==
    /\ pc = "build" /\ stack # <<>> /\ Top.todo # <<>>
    /\ LeafSkipped(Head(Top.todo), visited_classes)
    /\ stack' = StackAfterLeaf
    /\ UNCHANGED <<pc, mod_idx, members, class_map, class_keys, visited_classes, discovered>>
    /\ BuildUnchanged

\* the loop body when the lookup or the import raises: the except branch
\* records a placeholder unless class_map has the name
LeafLookupRaises ==
    /\ pc = "build" /\ stack # <<>> /\ Top.todo # <<>>
    /\ LET name == Head(Top.todo)
       IN  /\ ~LeafSkipped(name, visited_classes)
           /\ Resolve(env, Top.cls, name).raised
           /\ class_map' = IF name \in DOMAIN class_map THEN class_map
                           ELSE SetEntry(class_map, name, PlaceholderEntry)
           /\ class_keys' = KeysAfterSet(class_keys, class_map, name)
    /\ stack' = StackAfterExcept
    /\ UNCHANGED <<pc, mod_idx, members, visited_classes, discovered>>
    /\ BuildUnchanged

\* the loop body when the name resolves to an object that process_class
\* cannot process: the object's name is marked visited, then the except
\* branch records a placeholder unless class_map has the name
LeafProcessingRaises ==
    /\ pc = "build" /\ stack # <<>> /\ Top.todo # <<>>
    /\ LET name == Head(Top.todo)
           r == Resolve(env, Top.cls, name)
       IN  /\ ~LeafSkipped(name, visited_classes)
           /\ ~r.raised
           /\ ProcessingRaises(r.obj, visited_classes)
           /\ visited_classes' = MarkVisited(visited_classes, r.obj.name)
           /\ class_map' = IF name \in DOMAIN class_map THEN class_map
                           ELSE SetEntry(class_map, name, PlaceholderEntry)
           /\ class_keys' = KeysAfterSet(class_keys, class_map, name)
    /\ stack' = StackAfterExcept
    /\ UNCHANGED <<pc, mod_idx, members, discovered>>
    /\ BuildUnchanged

\* the loop body when the name resolves to an object whose own name is
\* visited or builtin: process_class returns at once
LeafCallReturnsAtOnce ==
    /\ pc = "build" /\ stack # <<>> /\ Top.todo # <<>>
    /\ LET name == Head(Top.todo)
           r == Resolve(env, Top.cls, name)
       IN  /\ ~LeafSkipped(name, visited_classes)
           /\ ~r.raised
           /\ ReturnsAtOnce(r.obj, visited_classes)
           /\ discovered' = IF r.obj.kind = "class" THEN discovered \cup {r.obj}
                            ELSE discovered
    /\ stack' = StackAfterLeaf
    /\ UNCHANGED <<pc, mod_idx, members, class_map, class_keys, visited_classes>>
    /\ BuildUnchanged

\* the loop body when the name resolves to a class: the recursive call of
\* process_class marks it visited, records its entry and enters its loops
LeafCallProcesses ==
    /\ pc = "build" /\ stack # <<>> /\ Top.todo # <<>>
    /\ Len(stack) < MaxStack
    /\ LET name == Head(Top.todo)
           r == Resolve(env, Top.cls, name)
       IN  /\ ~LeafSkipped(name, visited_classes)
           /\ ~r.raised
           /\ ~ReturnsAtOnce(r.obj, visited_classes)
           /\ r.obj.kind = "class"
           /\ visited_classes' = MarkVisited(visited_classes, r.obj.name)
           /\ class_map' = SetEntry(class_map, r.obj.name, ClassEntry(env, r.obj))
           /\ class_keys' = KeysAfterSet(class_keys, class_map, r.obj.name)
           /\ stack' = Append(StackAfterLeaf, Frame(env, r.obj))
           /\ discovered' = discovered \cup {r.obj}
    /\ UNCHANGED <<pc, mod_idx, members>>
    /\ BuildUnchanged

\* process_class returns: its loops have no name left
ProcessClassReturns ==
    /\ pc = "build" /\ stack # <<>> /\ Top.todo = <<>>
    /\ stack' = SubSeq(stack, 1, Len(stack) - 1)
    /\ UNCHANGED <<pc, mod_idx, members, class_map, class_keys, visited_classes, discovered>>
    /\ BuildUnchanged

\* return class_map; main passes it to visualize_schemas
BuildReturns ==
    /\ pc = "build" /\ stack = <<>> /\ members = <<>>
    /\ mod_idx > Len(env.module_names)
    /\ pc' = "nodes"
    /\ node_idx' = 1
    /\ UNCHANGED <<env, mod_idx, members, stack, class_map, class_keys, visited_classes,
                   discovered, G_nodes, G_edges, edge_todo, pf_in, pf_out>>

(***************************************************************************)
(* visualize_schemas                                                       *)
(***************************************************************************)
\* the attributes G.add_node gives the node of a class: an HTML table for a
\* class with fields (an Enum lists its members), a dashed box otherwise
NodeAttrs(info) ==
    IF info.fields # <<>>
    THEN [shape |-> "plaintext", style |-> "",
          label |-> IF info.is_enum THEN "enum_table" ELSE "table"]
    ELSE [shape |-> "box", style |-> "dashed", label |-> "name"]

\* G.add_node(name, ...): a node that exists keeps its identity and takes
\* the new attributes
AddNode(nodes, name, attrs) ==
    [n \in DOMAIN nodes \cup {name} |-> IF n = name THEN attrs ELSE nodes[n]]

RECURSIVE LeafTriples(_, _, _)
\* for base_type_name in field_info["type"]["types"]
LeafTriples(class_name, field_name, types) ==
    IF types = <<>> THEN <<>>
    ELSE << [cls |-> class_name, field |-> field_name, leaf |-> Head(types)] >>
         \o LeafTriples(class_name, field_name, Tail(types))

RECURSIVE FieldTriples(_, _)
\* for field_name, field_info in fields.items()
FieldTriples(class_name, fields) ==
    IF fields = <<>> THEN <<>>
    ELSE LeafTriples(class_name, Head(fields).name, Head(fields).type.types)
         \o FieldTriples(class_name, Tail(fields))

RECURSIVE EdgeWork(_, _)
\* for class_name, class_info in class_map.items(): what the edge loops visit
EdgeWork(cm, keys) ==
    IF keys = <<>> THEN <<>>
    ELSE FieldTriples(Head(keys), cm[Head(keys)].fields) \o EdgeWork(cm, Tail(keys))

\* tailport=f"{sanitized_field_name}_type"
TailPort(field_name) == sanitize_name(field_name) \o <<"_", "t", "y", "p", "e">>

NodeExistsUnchecked(nodes, name) == TRUE

\* sanitized_base_type in G.nodes()
NodeExists(nodes, name) == name \in DOMAIN nodes

\* if base_type_name and base_type_name not in BUILTIN_TYPES
EdgeCandidate(name) == name # <<>> /\ name \notin BUILTIN_TYPES

VizUnchanged ==
    UNCHANGED <<env, mod_idx, members, stack, class_map, class_keys, visited_classes,
                discovered, pf_in, pf_out>>

\* the node loop: one G.add_node per key of class_map
AddClassNode ==
    /\ pc = "nodes" /\ node_idx <= Len(class_keys)
    /\ LET class_name == class_keys[node_idx]
       IN  G_nodes' = AddNode(G_nodes, sanitize_name(class_name),
                              NodeAttrs(class_map[class_name]))
    /\ node_idx' = node_idx + 1
    /\ UNCHANGED <<pc, G_edges, edge_todo>>
    /\ VizUnchanged

\* the node loop is over, the edge loops start
NodesDone ==
    /\ pc = "nodes" /\ node_idx > Len(class_keys)
    /\ pc' = "edges"
    /\ edge_todo' = EdgeWork(class_map, class_keys)
    /\ UNCHANGED <<G_nodes, G_edges, node_idx>>
    /\ VizUnchanged

\* the edge loops: G.add_edge from the field's port to the node of the leaf
AddFieldEdge ==
    /\ pc = "edges" /\ edge_todo # <<>>
    /\ LET t == Head(edge_todo)
       IN  /\ EdgeCandidate(t.leaf)
           /\ NodeExists(G_nodes, sanitize_name(t.leaf))
           /\ G_edges' = Append(G_edges,
                  [tail |-> sanitize_name(t.cls), head |-> sanitize_name(t.leaf),
                   tailport |-> TailPort(t.field),
                   headport |-> <<"c", "l", "a", "s", "s", "_", "h", "e", "a", "d", "e", "r">>])
    /\ edge_todo' = Tail(edge_todo)
    /\ UNCHANGED <<pc, G_nodes, node_idx>>
    /\ VizUnchanged

\* the edge loops: "Warning: Node ... does not exist in the graph."
WarnNoNode ==
    /\ pc = "edges" /\ edge_todo # <<>>
    /\ EdgeCandidate(Head(edge_todo).leaf)
    /\ ~NodeExists(G_nodes, sanitize_name(Head(edge_todo).leaf))
    /\ edge_todo' = Tail(edge_todo)
    /\ UNCHANGED <<pc, G_nodes, G_edges, node_idx>>
    /\ VizUnchanged

\* the edge loops: "Skipping built-in type ... or unresolved type."
SkipBuiltinLeaf ==
    /\ pc = "edges" /\ edge_todo # <<>>
    /\ ~EdgeCandidate(Head(edge_todo).leaf)
    /\ edge_todo' = Tail(edge_todo)
    /\ UNCHANGED <<pc, G_nodes, G_edges, node_idx>>
    /\ VizUnchanged

\* G.add_node("Legend", ...)
AddLegendNode ==
    /\ pc = "edges" /\ edge_todo = <<>>
    /\ G_nodes' = AddNode(G_nodes, nLegend,
                          [shape |-> "plaintext", style |-> "", label |-> "legend"])
    /\ pc' = "legend_edge"
    /\ UNCHANGED <<G_edges, node_idx, edge_todo>>
    /\ VizUnchanged

\* G.add_edge("Legend", "Legend", style="invis", ...); the graph is drawn
AddLegendEdge ==
    /\ pc = "legend_edge"
    /\ G_edges' = Append(G_edges,
           [tail |-> nLegend, head |-> nLegend, tailport |-> <<>>, headport |-> <<>>])
    /\ pc' = "done"
    /\ UNCHANGED <<G_nodes, node_idx, edge_todo>>
    /\ VizUnchanged

(***************************************************************************)
(* The runs of the script                                                  *)
(***************************************************************************)
\* the wrappers of one more level of nesting around the expressions of S
Wrapped(S) ==
    {OptionalOf(t) : t \in S} \cup {ListOf(t) : t \in S}
    \cup {SetOf(t) : t \in S} \cup {TupleOf(t) : t \in S}
    \cup {DictOf(Obj(nStr), t) : t \in S} \cup {DictOf(t, t) : t \in S}
    \cup {UnionOf(<<Obj(nB), t>>) : t \in S}

RECURSIVE TypesUpTo(_, _)
\* the type expressions over the atoms S nested at most n deep
TypesUpTo(S, n) ==
    IF n = 0 THEN S
    ELSE TypesUpTo(S, n - 1) \cup Wrapped(TypesUpTo(S, n - 1))

\* the annotation of A.f
TypesOfA == TypesUpTo({Obj(nInt), Obj(nB), Obj(nC)}, MaxFieldNest)

\* the annotation of B.p
TypesOfB == {Obj(nComplex), Obj(nA), Obj(nB), Obj(nC), Obj(nDt), Obj(nRB)}

\* the annotation of C's field, and what m2 binds the name A to
ConfigsOfC ==
    { [TC |-> Obj(nInt), m2A |-> "none"], [TC |-> Obj(nA), m2A |-> "none"],
      [TC |-> Obj(nA), m2A |-> "A"],
      [TC |-> UnionOf(<<Obj(nC), Obj(nA)>>), m2A |-> "C"],
      [TC |-> TupleOf(Obj(nB)), m2A |-> "none"] }

\* the module_names the script is run with
ModuleLists == { <<nM1>>, <<nM2>>, <<nBad, nM2, nM1>> }

Environments ==
    { [module_names |-> ms, TA |-> ta, TB |-> tb, TC |-> c.TC, m2A |-> c.m2A] :
        ms \in ModuleLists, ta \in TypesOfA, tb \in TypesOfB, c \in ConfigsOfC }

NoEnv == [module_names |-> <<>>, TA |-> NoneLit, TB |-> NoneLit, TC |-> NoneLit, m2A |-> "none"]

\* main(): build_class_map(module_names), then visualize_schemas(class_map)
Init ==
    /\ env \in Environments
    /\ pc = "build"
    /\ mod_idx = 1
    /\ members = <<>>
    /\ stack = <<>>
    /\ class_map = <<>>
    /\ class_keys = <<>>
    /\ visited_classes = {}
    /\ discovered = {}
    /\ G_nodes = <<>>
    /\ G_edges = <<>>
    /\ node_idx = 1
    /\ edge_todo = <<>>
    /\ pf_in = NoneLit
    /\ pf_out = <<>>

Next ==
    \/ ImportListed
    \/ ImportFails
    \/ TopCallReturnsAtOnce
    \/ TopCallProcesses
    \/ LeafPassedOver
    \/ LeafLookupRaises
    \/ LeafProcessingRaises
    \/ LeafCallReturnsAtOnce
    \/ LeafCallProcesses
    \/ ProcessClassReturns
    \/ BuildReturns
    \/ AddClassNode
    \/ NodesDone
    \/ AddFieldEdge
    \/ WarnNoNode
    \/ SkipBuiltinLeaf
    \/ AddLegendNode
    \/ AddLegendEdge

\* the script is one thread that runs to its end
Spec == Init /\ [][Next]_vars /\ WF_vars(Next)

(***************************************************************************)
(* The type resolution run: parse_field_type applied to a type expression  *)
(* T, to Optional[T] and to Union[T, None].                                *)
(***************************************************************************)
\* the type expressions resolved
ParseInputs ==
    TypesUpTo({Obj(nInt), Obj(nB), Obj(nC), NoneTypeT, NoneLit, NoName(nA), BareList},
              MaxNest)

InitParse ==
    /\ pf_in \in ParseInputs
    /\ pf_out = <<>>
    /\ env = NoEnv
    /\ pc = "parse"
    /\ mod_idx = 1
    /\ members = <<>>
    /\ stack = <<>>
    /\ class_map = <<>>
    /\ class_keys = <<>>
    /\ visited_classes = {}
    /\ discovered = {}
    /\ G_nodes = <<>>
    /\ G_edges = <<>>
    /\ node_idx = 1
    /\ edge_todo = <<>>

ParseUnchanged ==
    UNCHANGED <<env, pc, mod_idx, members, stack, class_map, class_keys, visited_classes,
                discovered, G_nodes, G_edges, node_idx, edge_todo, pf_in>>

\* parse_field_type(T)
ParsePlain ==
    /\ pc = "parse" /\ Len(pf_out) = 0
    /\ pf_out' = Append(pf_out, parse_field_type(pf_in))
    /\ ParseUnchanged

\* parse_field_type(Optional[T])
ParseOptional ==
    /\ pc = "parse" /\ Len(pf_out) = 1
    /\ pf_out' = Append(pf_out, parse_field_type(OptionalOf(pf_in)))
    /\ ParseUnchanged

\* parse_field_type(Union[T, None])
ParseUnionNone ==
    /\ pc = "parse" /\ Len(pf_out) = 2
    /\ pf_out' = Append(pf_out, parse_field_type(UnionOf(<<pf_in, NoneLit>>)))
    /\ ParseUnchanged

NextParse == ParsePlain \/ ParseOptional \/ ParseUnionNone

SpecParse == InitParse /\ [][NextParse]_vars /\ WF_vars(NextParse)

(***************************************************************************)
(* Properties                                                              *)
(***************************************************************************)
\* the classes of the environment
Classes == {cA, cB, cC, cE, cText, cDt}

\* the elements of a sequence
Range(seq) == {seq[i] : i \in 1..Len(seq)}

RECURSIVE Mentions(_, _)
\* the type expression t names the class n, itself or at any depth of its parameters
Mentions(t, n) ==
    \/ t.tag = "Obj" /\ t.name = n
    \/ \E i \in 1..Len(t.args) : Mentions(t.args[i], n)

\* the type expression nests nothing but Optional, Union, List and Dict
RECURSIVE OnlyHandledContainers(_)
OnlyHandledContainers(t) ==
    /\ t.tag # "Generic"
    /\ \A i \in 1..Len(t.args) : OnlyHandledContainers(t.args[i])

\* the key a of class_map holds the entry of the class cls
EntryOf(a, cls) ==
    a \in DOMAIN class_map /\ cls.name = a /\ class_map[a].module = cls.module

\* G has an edge from the port of field f of the node of a to the node of c
FieldEdges(a, f, c) ==
    {i \in 1..Len(G_edges) :
        /\ G_edges[i].tail = sanitize_name(a)
        /\ G_edges[i].tailport = TailPort(f)
        /\ G_edges[i].head = sanitize_name(c)}

HasNode(n) == sanitize_name(n) \in DOMAIN G_nodes

\* C1: when the graph is drawn, every class A of class_map has, for every
\* field whose type expression mentions a class C (at any depth inside
\* Optional, Union, List, Dict, Set or Tuple) that has a node, an edge from
\* A's node to C's node.
C1_EdgeForEveryMention ==
    pc = "done" =>
        \A cls \in Classes : \A c \in Classes :
            EntryOf(cls.name, cls) /\ ~IsEnum(cls) /\ HasNode(c.name) =>
                \A i \in 1..Len(Annotations(env, cls)) :
                    Mentions(Annotations(env, cls)[i].type, c.name) =>
                        FieldEdges(cls.name, Annotations(env, cls)[i].name, c.name) # {}

\* C1, for the containers parse_field_type handles: when nothing but
\* Optional, Union, List and Dict nests the mention, the edge is drawn
C1_EdgeForHandledContainers ==
    pc = "done" =>
        \A cls \in Classes : \A c \in Classes :
            EntryOf(cls.name, cls) /\ ~IsEnum(cls) /\ HasNode(c.name) =>
                \A i \in 1..Len(Annotations(env, cls)) :
                    /\ Mentions(Annotations(env, cls)[i].type, c.name)
                    /\ OnlyHandledContainers(Annotations(env, cls)[i].type)
                    /\ c.name \notin BUILTIN_TYPES
                    => FieldEdges(cls.name, Annotations(env, cls)[i].name, c.name) # {}

\* C2: build_class_map terminates, also on self-referential and cyclic
\* class graphs: it reaches the state where no call of process_class is
\* active and no class is left to process, and returns.
C2_BuildTerminates ==
    <>(pc = "nodes" /\ stack = <<>> /\ members = <<>>)

\* the fields of the entry of a name the leaf n
RefersTo(a, n) ==
    a \in DOMAIN class_map /\ n \in Range(LeafNames(class_map[a].fields))

\* C2 witness: build_class_map has returned from the cycle A -> B -> C -> A
C2_CycleResolved ==
    /\ pc = "nodes"
    /\ RefersTo(nA, nB) /\ RefersTo(nB, nC) /\ RefersTo(nC, nA)

\* C3: an edge is added only to a target that is a node of the graph at
\* that moment.
C3_EdgeTargetExists ==
    [][Len(G_edges') > Len(G_edges) =>
          G_edges'[Len(G_edges')].head \in DOMAIN G_nodes]_vars

\* C3 witness: edges were drawn although some referenced name has no node
C3_EdgeDrawnBesideMissingNode ==
    /\ pc = "done"
    /\ \E i \in 1..Len(G_edges) : G_edges[i].tailport # <<>>
    /\ \E a \in DOMAIN class_map : \E n \in Range(LeafNames(class_map[a].fields)) :
          EdgeCandidate(n) /\ ~HasNode(n)

\* the built-in primitive types the claim names
Primitives ==
    {nInt, nStr, <<"f", "l", "o", "a", "t">>, <<"b", "o", "o", "l">>,
     <<"b", "y", "t", "e", "s">>, nComplex}

\* C4: no edge leaves the port of a field whose type is a built-in primitive.
C4_NoEdgeFromPrimitiveField ==
    \A cls \in Classes : \A i \in 1..Len(Annotations(env, cls)) :
        LET ann == Annotations(env, cls)[i]
        IN  ann.type.tag = "Obj" /\ ann.type.name \in Primitives /\ ~IsEnum(cls) =>
                \A k \in 1..Len(G_edges) :
                    ~(G_edges[k].tail = sanitize_name(cls.name)
                      /\ G_edges[k].tailport = TailPort(ann.name))

NonBuiltin(types) == SelectSeq(types, LAMBDA n : n \notin BUILTIN_TYPES)

C6_OneNodePerDiscoveredClass ==
    pc = "done" =>
        /\ \A c \in discovered : HasNode(c.name)
        /\ \A c, d \in discovered : c # d => sanitize_name(c.name) # sanitize_name(d.name)

\* C7: exactly one edge goes from the port of a field to each referenced
\* class that has a node, however often the class occurs in the type.
C7_OneEdgePerFieldAndClass ==
    pc = "done" =>
        \A a \in DOMAIN class_map : \A i \in 1..Len(class_map[a].fields) :
            \A n \in Range(class_map[a].fields[i].type.types) :
                EdgeCandidate(n) /\ HasNode(n) =>
                    Cardinality(FieldEdges(a, class_map[a].fields[i].name, n)) = 1

\* the border of a node: its shape and line style
Border(n) == <<G_nodes[sanitize_name(n)].shape, G_nodes[sanitize_name(n)].style>>

\* C8: the node of a local class and the node of a class that is not local
\* differ in border style.
C8_BorderTellsLocal ==
    pc = "done" =>
        \A a, b \in DOMAIN class_map :
            class_map[a].local /\ ~class_map[b].local => Border(a) # Border(b)

\* the next step is a resolution of a leaf name that fails
FailingLeaf ==
    /\ pc = "build" /\ stack # <<>> /\ Top.todo # <<>>
    /\ ~LeafSkipped(Head(Top.todo), visited_classes)
    /\ \/ Resolve(env, Top.cls, Head(Top.todo)).raised
       \/ ProcessingRaises(Resolve(env, Top.cls, Head(Top.todo)).obj, visited_classes)

\* C10: a failed resolution records the placeholder (no fields, module
\* None, not local, no enum) for the name only if class_map has no entry
\* for it, no step replaces an entry by a placeholder, and the loops go on
\* with the next leaf.
C10_PlaceholderOnFailure ==
    [][/\ FailingLeaf =>
            /\ class_map' =
                 IF Head(Top.todo) \in DOMAIN class_map THEN class_map
                 ELSE [n \in DOMAIN class_map \cup {Head(Top.todo)} |->
                          IF n = Head(Top.todo)
                          THEN [fields |-> <<>>, module |-> <<>>,
                                local |-> FALSE, is_enum |-> FALSE]
                          ELSE class_map[n]]
            /\ Len(stack') = Len(stack)
            /\ stack'[Len(stack)] = [cls |-> Top.cls, todo |-> Tail(Top.todo)]
            /\ members' = members /\ mod_idx' = mod_idx /\ pc' = "build"
       /\ \A n \in DOMAIN class_map :
            /\ n \in DOMAIN class_map'
            /\ class_map'[n] # class_map[n] =>
                  class_map'[n] # [fields |-> <<>>, module |-> <<>>,
                                   local |-> FALSE, is_enum |-> FALSE]
      ]_vars

\* C10 witness: a name failed to resolve from two classes, its one
\* placeholder has an edge from each, and the build went on to the end
C10_PlaceholderReferencedTwice ==
    /\ pc = "done"
    /\ nTuple \in DOMAIN class_map
    /\ class_map[nTuple] = [fields |-> <<>>, module |-> <<>>,
                            local |-> FALSE, is_enum |-> FALSE]
    /\ \E i, j \in 1..Len(G_edges) :
          /\ G_edges[i].head = nTuple /\ G_edges[j].head = nTuple
          /\ G_edges[i].tail # G_edges[j].tail

\* C11: when build_class_map has returned, every leaf name outside
\* BUILTIN_TYPES listed in a field of an entry of class_map is a key of
\* class_map, and so the edge loops never meet a candidate leaf without a
\* node (the "Node does not exist" branch is never taken).
C11_ReferenceClosure ==
    /\ pc # "build" =>
          \A a \in DOMAIN class_map :
              \A n \in Range(LeafNames(class_map[a].fields)) :
                  n \notin BUILTIN_TYPES => n \in DOMAIN class_map
    /\ (pc = "edges" /\ edge_todo # <<>> /\ EdgeCandidate(Head(edge_todo).leaf)) =>
          NodeExists(G_nodes, sanitize_name(Head(edge_todo).leaf))

\* C11, where every name a module binds is the __name__ of the object bound
\* to it: the closure holds and the warning branch is not taken
C11_ClosureWithoutRenamedBinding ==
    env.m2A # "C" => C11_ReferenceClosure

====
